---- MODULE Spec2Model ----
(***************************************************************************)
(* Model of the moving-average strategies (strategies.py) and of the       *)
(* benchmark harness that drives them (profiler.py, data_loader.py).       *)
(*                                                                         *)
(* Prices are Python floats.  A float is modelled as an integer count of   *)
(* the smallest quantum of a binary floating-point format with Precision   *)
(* significand bits and round-to-nearest, ties-to-even: every integer of   *)
(* magnitude below 2^Precision is representable, above that only the       *)
(* multiples of the binade's quantum are.  Python's float is the same      *)
(* format with a 53 bit significand; Precision scales it down so that      *)
(* the values stay inside TLC's integers.                                  *)
(***************************************************************************)
EXTENDS Integers, Sequences, FiniteSets, TLC

\* ------------------------------------------------------------------ bounds
Precision == 11
MaxWindow == 3
MaxTicks == 4
\* benchmark_all replays 1000, 10000 and 100000 ticks; the model replays
\* three increasing sizes, below and above the window sizes
SizeSmall == 2
SizeMedium == 4
SizeLarge == 6
\* direct calls of load_market_data_limited: files of up to MaxRows rows,
\* limits of up to MaxLimit
MaxRows == 3
MaxLimit == 4

\* ------------------------------------------------------------ float model
RECURSIVE Pow2(_)
Pow2(n) == IF n <= 0 THEN 1 ELSE 2 * Pow2(n - 1)

Abs(x) == IF x < 0 THEN -x ELSE x

\* the quantum of the binade that holds num/den (num >= 0, den > 0): the
\* smallest power of two q with num/den < 2^Precision * q
RECURSIVE Quantum(_, _, _)
Quantum(num, den, q) ==
    IF num < Pow2(Precision) * q * den THEN q ELSE Quantum(num, den, 2 * q)

\* num/den (num >= 0, den > 0) rounded to the nearest representable value,
\* ties to the even significand
RoundPos(num, den) ==
    LET q == Quantum(num, den, 1)
        m == num \div (den * q)
        r == num - m * den * q
    IN  IF 2 * r < den * q THEN m * q
        ELSE IF 2 * r > den * q THEN (m + 1) * q
        ELSE IF m % 2 = 0 THEN m * q ELSE (m + 1) * q

\* float division a / b of two representable values, b # 0
FDiv(a, b) ==
    LET num == IF b < 0 THEN -a ELSE a
        den == Abs(b)
    IN  IF num < 0 THEN -RoundPos(-num, den) ELSE RoundPos(num, den)

FAdd(a, b) == FDiv(a + b, 1)
FSub(a, b) == FDiv(a - b, 1)

\* the exact (real-number) sum of a sequence
RECURSIVE ExactSum(_)
ExactSum(s) == IF s = <<>> THEN 0 ELSE s[1] + ExactSum(Tail(s))

\* sum(window): the builtin adds left to right, starting from the int 0.
\* (Each partial sum is bound by a quantifier so that it is computed once.)
RECURSIVE FloatSumFrom(_, _, _)
FloatSumFrom(acc, s, i) ==
    IF i > Len(s) THEN acc
    ELSE CHOOSE total \in {FloatSumFrom(next, s, i + 1) :
                               next \in {FAdd(acc, s[i])}} : TRUE

FloatSum(s) == FloatSumFrom(0, s, 1)

\* ------------------------------------------------------------------ inputs
\* 1.0 sits at the bottom of the first full-precision binade, as it does in
\* a Python float, so that averages of prices keep Precision bits
One == Pow2(Precision - 1)
\* a price whose significand is not round, as 0.1 is in a Python float
Uneven == One + One \div 3 + 1
\* the first value whose successor integer is not representable (2.0**53)
BigPrice == Pow2(Precision) * One
Prices == {One, Uneven, 2 * One, BigPrice}
WindowSizes == (-1) .. MaxWindow

\* ------------------------------------------------ NaiveMovingAverageStrategy
NoNaive == [constructed |-> FALSE, window_size |-> 0, price_history |-> <<>>]

NaiveInit(k) == [constructed |-> TRUE, window_size |-> k, price_history |-> <<>>]

\* price_history[-window_size:]
LastSlice(h, k) ==
    LET n == Len(h)
        from == IF k > 0 THEN (IF k >= n THEN 1 ELSE n - k + 1)
                ELSE IF k = 0 THEN 1
                ELSE (IF -k >= n THEN n + 1 ELSE 1 - k)
    IN  SubSeq(h, from, n)

\* Compare with >= for >: a tie is Long
CompareTieLong(price, average) ==
    IF price >= average THEN "Long"
    ELSE IF price < average THEN "Short"
    ELSE "Hold"

Compare(price, average) ==
    IF price > average THEN "Long"
    ELSE IF price < average THEN "Short"
    ELSE "Hold"

\* NaiveGenerate with the warm-up guard one tick short
NaiveGenerateShortWarmup(s, price) ==
    LET h == Append(s.price_history, price)
        s2 == [s EXCEPT !.price_history = h]
    IN  IF Len(h) < s.window_size - 1 THEN [state |-> s2, out |-> "Hold"]
        ELSE IF s.window_size = 0
             THEN [state |-> s2, out |-> "ZeroDivisionError"]
        ELSE [state |-> s2,
              out |-> Compare(price,
                              FDiv(FloatSum(LastSlice(h, s.window_size)),
                                   s.window_size))]

\* NaiveGenerate keeping only the prices of the current window
NaiveGenerateTrimmed(s, price) ==
    LET h == Append(s.price_history, price)
        s2 == [s EXCEPT !.price_history = LastSlice(h, s.window_size)]
    IN  IF Len(h) < s.window_size THEN [state |-> s2, out |-> "Hold"]
        ELSE IF s.window_size = 0
             THEN [state |-> s2, out |-> "ZeroDivisionError"]
        ELSE [state |-> s2,
              out |-> Compare(price,
                              FDiv(FloatSum(LastSlice(h, s.window_size)),
                                   s.window_size))]

\* generate_signals: the instance after the call and what the call gave
NaiveGenerate(s, price) ==
    LET h == Append(s.price_history, price)
        s2 == [s EXCEPT !.price_history = h]
    IN  IF Len(h) < s.window_size THEN [state |-> s2, out |-> "Hold"]
        ELSE IF s.window_size = 0
             THEN [state |-> s2, out |-> "ZeroDivisionError"]
        ELSE [state |-> s2,
              out |-> Compare(price,
                              FDiv(FloatSum(LastSlice(h, s.window_size)),
                                   s.window_size))]

\* ---------------------------------------------- WindowedMovingAverageStrategy
NoWindowed == [constructed |-> FALSE, window_size |-> 0, maxlen |-> 0,
               window |-> <<>>, running_sum |-> 0]

\* WindowedInit with a deque one element larger than the window
WindowedInitWideDeque(k) ==
    [constructed |-> TRUE, window_size |-> k, maxlen |-> k + 1,
     window |-> <<>>, running_sum |-> 0]

WindowedInit(k) == [constructed |-> TRUE, window_size |-> k, maxlen |-> k,
                    window |-> <<>>, running_sum |-> 0]

\* DequeAppend on a deque that was built without maxlen
DequeAppendUnbounded(d, maxlen, x) == Append(d, x)

\* DequeAppend dropping the newest element of a full deque, not the oldest
DequeAppendDropNewest(d, maxlen, x) ==
    IF maxlen = 0 THEN d
    ELSE IF Len(d) = maxlen THEN Append(SubSeq(d, 1, Len(d) - 1), x)
    ELSE Append(d, x)

\* deque.append on a deque(maxlen = maxlen)
DequeAppend(d, maxlen, x) ==
    IF maxlen = 0 THEN d
    ELSE IF Len(d) = maxlen THEN Append(Tail(d), x)
    ELSE Append(d, x)

WindowedGenerate(s, price) ==
    IF Len(s.window) = s.window_size /\ s.window = <<>>
    THEN [state |-> s, out |-> "IndexError"]
    ELSE
    LET sum1 == IF Len(s.window) = s.window_size
                THEN FSub(s.running_sum, s.window[1])
                ELSE s.running_sum
        w == DequeAppend(s.window, s.maxlen, price)
        sum2 == FAdd(sum1, price)
        s2 == [s EXCEPT !.window = w, !.running_sum = sum2]
    IN  IF Len(w) < s.window_size THEN [state |-> s2, out |-> "Hold"]
        ELSE IF s.window_size = 0
             THEN [state |-> s2, out |-> "ZeroDivisionError"]
        ELSE [state |-> s2, out |-> Compare(price, FDiv(sum2, s.window_size))]

Min(a, b) == IF a < b THEN a ELSE b

\* ------------------------------------------------------------- data_loader
\* A data row of the CSV file, as csv.DictReader yields it:
\*   [timestamp |-> [local, offset, well_formed], symbol,
\*    price |-> [value, well_formed]]
\* timestamp is the text "<local time><6 characters of UTC offset>", price
\* the decimal text of value (counted in quanta of the float format).

\* parse_timestamp: drops the last 6 characters and parses the rest;
\* strptime raises ValueError on text of another shape
parse_timestamp(timestamp) ==
    IF timestamp.well_formed
    THEN [error |-> "none", value |-> timestamp.local]
    ELSE [error |-> "ValueError", value |-> 0]

\* float(row['price']): the nearest float to the decimal text, or ValueError
ParseFloat(price) ==
    IF price.well_formed
    THEN [error |-> "none", value |-> FDiv(price.value, 1)]
    ELSE [error |-> "ValueError", value |-> 0]

\* MarketDataPoint(timestamp = ..., symbol = ..., price = ...): the
\* arguments are evaluated in order, the first exception leaves
ParseRow(row) ==
    LET ts == parse_timestamp(row.timestamp)
        pr == ParseFloat(row.price)
    IN  IF ts.error # "none" THEN [error |-> ts.error, point |-> <<>>]
        ELSE IF pr.error # "none" THEN [error |-> pr.error, point |-> <<>>]
        ELSE [error |-> "none",
              point |-> [timestamp |-> ts.value, symbol |-> row.symbol,
                         price |-> pr.value]]

\* LoadLoop reading one row more than the limit
RECURSIVE LoadLoopOffByOne(_, _, _, _)
LoadLoopOffByOne(rows, i, limit, data_points) ==
    IF i >= Len(rows) THEN [error |-> "none", data_points |-> data_points]
    ELSE IF i > limit THEN [error |-> "none", data_points |-> data_points]
    ELSE LET p == ParseRow(rows[i + 1])
         IN  IF p.error # "none"
             THEN [error |-> p.error, data_points |-> <<>>]
             ELSE LoadLoopOffByOne(rows, i + 1, limit,
                                   Append(data_points, p.point))

\* load_market_data_limited: the loop over enumerate(reader) with its break;
\* i counts from 0 as enumerate does, rows[i + 1] is the row it yields
RECURSIVE LoadLoop(_, _, _, _)
LoadLoop(rows, i, limit, data_points) ==
    IF i >= Len(rows) THEN [error |-> "none", data_points |-> data_points]
    ELSE IF i >= limit THEN [error |-> "none", data_points |-> data_points]
    ELSE LET p == ParseRow(rows[i + 1])
         IN  IF p.error # "none"
             THEN [error |-> p.error, data_points |-> <<>>]
             ELSE LoadLoop(rows, i + 1, limit, Append(data_points, p.point))

\* open() raises FileNotFoundError when the file is missing
load_market_data_limited(exists, rows, limit) ==
    IF ~exists THEN [error |-> "FileNotFoundError", data_points |-> <<>>]
    ELSE LoadLoop(rows, 0, limit, <<>>)

\* ---------------------------------------------------------------- profiler
NaiveClass == "NaiveMovingAverageStrategy"
WindowedClass == "WindowedMovingAverageStrategy"

sizes == <<SizeSmall, SizeMedium, SizeLarge>>

\* strategy_class(window_size = window_size): the instance, or the exception
Construct(class, k) ==
    IF class = NaiveClass THEN [error |-> "none", state |-> NaiveInit(k)]
    ELSE IF k < 0 THEN [error |-> "ValueError", state |-> NoWindowed]
    ELSE [error |-> "none", state |-> WindowedInit(k)]

Generate(class, s, tick) ==
    IF class = NaiveClass THEN NaiveGenerate(s, tick.price)
    ELSE WindowedGenerate(s, tick.price)

\* run_strategy: generate_signals on every tick in order; an exception of a
\* call ends the loop.  replayed counts the calls that returned.
\* (Each call's result is bound by a quantifier so that it is computed once.)
RECURSIVE RunLoop(_, _, _, _)
RunLoop(class, s, data_points, i) ==
    IF i > Len(data_points)
    THEN [error |-> "none", state |-> s, replayed |-> i - 1]
    ELSE CHOOSE run \in
           {IF r.out \in {"ZeroDivisionError", "IndexError"}
            THEN [error |-> r.out, state |-> r.state, replayed |-> i - 1]
            ELSE RunLoop(class, r.state, data_points, i + 1) :
                r \in {Generate(class, s, data_points[i])}} : TRUE

run_strategy(class, s, data_points) == RunLoop(class, s, data_points, 1)

\* the prices an instance retains: what asizeof walks
Retained(class, s) ==
    IF class = NaiveClass THEN Len(s.price_history) ELSE Len(s.window)

\* measure_runtime: a fresh instance, the replay between two clock reads,
\* and the difference of the reads.  The instance is logged with the use
\* made of it.
measure_runtime(class, data_points, k, elapsed) ==
    LET c == Construct(class, k)
        r == run_strategy(class, c.state, data_points)
    IN  IF c.error # "none"
        THEN [error |-> c.error, value |-> 0, made |-> <<>>]
        ELSE [error |-> r.error, value |-> elapsed,
              made |-> <<[class |-> class, window_size |-> k,
                          final |-> r.state, replayed |-> r.replayed, use |-> "runtime",
                          sampled_at |-> r.replayed]>>]

\* measure_memory with asizeof taken before the replay
measure_memory_before_replay(class, data_points, k) ==
    LET c == Construct(class, k)
        r == run_strategy(class, c.state, data_points)
    IN  IF c.error # "none"
        THEN [error |-> c.error, value |-> 0, made |-> <<>>]
        ELSE [error |-> r.error, value |-> Retained(class, c.state),
              made |-> <<[class |-> class, window_size |-> k,
                          final |-> r.state, replayed |-> r.replayed, use |-> "memory",
                          sampled_at |-> 0]>>]

\* measure_memory: a fresh instance, the replay, then asizeof of the
\* instance; the footprint is counted in retained prices
measure_memory(class, data_points, k) ==
    LET c == Construct(class, k)
        r == run_strategy(class, c.state, data_points)
    IN  IF c.error # "none"
        THEN [error |-> c.error, value |-> 0, made |-> <<>>]
        ELSE [error |-> r.error, value |-> Retained(class, r.state),
              made |-> <<[class |-> class, window_size |-> k,
                          final |-> r.state, replayed |-> r.replayed, use |-> "memory",
                          sampled_at |-> r.replayed]>>]

\* AppendRecord putting the new record first
PrependRecord(res, class, size, time, memory) ==
    <<[Strategy |-> class, ticks |-> size,
       runtime |-> time, memory |-> memory]>> \o res

\* results.append({...})
AppendRecord(res, class, size, time, memory) ==
    Append(res, [Strategy |-> class, ticks |-> size,
                 runtime |-> time, memory |-> memory])

\* LoopDone leaving the loop one size early
LoopDoneEarly(idx) == idx >= Len(sizes)

\* the for loop over sizes is exhausted
LoopDone(idx) == idx > Len(sizes)

\* --------------------------------------------------------------- reporting
\* generate_report: the two filtered lists and the zip over them
OfClass(res, class) == SelectSeq(res, LAMBDA r : r.Strategy = class)

Speedups(res) ==
    LET n == OfClass(res, NaiveClass)
        w == OfClass(res, WindowedClass)
    IN  [i \in 1 .. Min(Len(n), Len(w)) |->
            [naive_ticks |-> n[i].ticks, windowed_ticks |-> w[i].ticks,
             speedup |-> IF w[i].runtime > 0
                         THEN <<n[i].runtime, w[i].runtime>>
                         ELSE <<0, 1>>]]

\* ------------------------------------------------------------------- state
\* window_size: the window size the caller passes (main.py, the tests)
\* ticks, naive, windowed, windowed_ctor, naive_signals, windowed_signals:
\*   a tick stream, one instance of each strategy fed from it, and what each
\*   call gave
\* file_exists, file_rows: the CSV file and its data rows
\* load_limit: the limit of a direct call of load_market_data_limited
\* bench_pc .. windowed_memory: benchmark_all's position and locals; a
\*   measurement is kept with the index in instances of the instance it
\*   was taken from
\* instances: every strategy instance the harness has constructed
\* provenance: for each record of results, the instances measured for it
\* raised, returned: how benchmark_all ended; speedups: generate_report's list
VARIABLES window_size, ticks, naive, windowed, windowed_ctor,
          naive_signals, windowed_signals,
          file_exists, file_rows, load_limit, bench_pc, size_idx, data, results,
          naive_time, naive_memory, windowed_time, windowed_memory,
          instances, provenance, raised, returned, speedups

strategy_vars == <<ticks, naive, windowed, windowed_ctor,
                   naive_signals, windowed_signals>>

file_vars == <<file_exists, file_rows, load_limit>>

bench_vars == <<bench_pc, size_idx, data, results,
                naive_time, naive_memory, windowed_time, windowed_memory,
                instances, provenance, raised, returned, speedups>>

vars == <<window_size, strategy_vars, file_vars, bench_vars>>

NoMeasure == [value |-> 0, instance |-> 0]

StrategyIdle ==
    /\ ticks = <<>>
    /\ naive = NoNaive
    /\ windowed = NoWindowed
    /\ windowed_ctor = "none"
    /\ naive_signals = <<>>
    /\ windowed_signals = <<>>

BenchIdle(pc) ==
    /\ bench_pc = pc
    /\ size_idx = 1
    /\ data = <<>>
    /\ results = <<>>
    /\ naive_time = NoMeasure
    /\ naive_memory = NoMeasure
    /\ windowed_time = NoMeasure
    /\ windowed_memory = NoMeasure
    /\ instances = <<>>
    /\ provenance = <<>>
    /\ raised = "none"
    /\ returned = <<>>
    /\ speedups = <<>>

\* the strategies on their own: no benchmark is run
Init ==
    /\ window_size \in WindowSizes
    /\ StrategyIdle
    /\ file_exists = FALSE
    /\ file_rows = <<>>
    /\ load_limit = 0
    /\ BenchIdle("idle")

\* NaiveMovingAverageStrategy(window_size = window_size)
NewNaive ==
    /\ ~naive.constructed
    /\ naive' = NaiveInit(window_size)
    /\ UNCHANGED <<window_size, ticks, windowed, windowed_ctor,
                   naive_signals, windowed_signals, file_vars, bench_vars>>

\* WindowedMovingAverageStrategy(window_size = window_size);
\* deque(maxlen = k) raises ValueError for k < 0
NewWindowed ==
    /\ ~windowed.constructed
    /\ windowed_ctor = "none"
    /\ IF window_size < 0
       THEN /\ windowed_ctor' = "ValueError"
            /\ UNCHANGED windowed
       ELSE /\ windowed_ctor' = "ok"
            /\ windowed' = WindowedInit(window_size)
    /\ UNCHANGED <<window_size, ticks, naive, naive_signals, windowed_signals,
                   file_vars, bench_vars>>

\* the tick stream grows by one tick
NewTick ==
    /\ Len(ticks) < MaxTicks
    /\ \E p \in Prices : ticks' = Append(ticks, p)
    /\ UNCHANGED <<window_size, naive, windowed, windowed_ctor,
                   naive_signals, windowed_signals, file_vars, bench_vars>>

\* naive.generate_signals(tick) on the next tick of the stream
NaiveGenerateSignals ==
    /\ naive.constructed
    /\ Len(naive_signals) < Len(ticks)
    /\ LET r == NaiveGenerate(naive, ticks[Len(naive_signals) + 1])
       IN  /\ naive' = r.state
           /\ naive_signals' = Append(naive_signals, r.out)
    /\ UNCHANGED <<window_size, ticks, windowed, windowed_ctor, windowed_signals,
                   file_vars, bench_vars>>

\* windowed.generate_signals(tick) on the next tick of the stream
WindowedGenerateSignals ==
    /\ windowed.constructed
    /\ Len(windowed_signals) < Len(ticks)
    /\ LET r == WindowedGenerate(windowed, ticks[Len(windowed_signals) + 1])
       IN  /\ windowed' = r.state
           /\ windowed_signals' = Append(windowed_signals, r.out)
    /\ UNCHANGED <<window_size, ticks, naive, windowed_ctor, naive_signals,
                   file_vars, bench_vars>>

Next ==
    \/ NewNaive
    \/ NewWindowed
    \/ NewTick
    \/ NaiveGenerateSignals
    \/ WindowedGenerateSignals

Spec == Init /\ [][Next]_vars

\* --------------------------------------------------- benchmark_all, main.py
\* the rows of the file: row i holds PriceCycle[(i + offset) mod 4]
PriceCycle == <<One, Uneven, 2 * One, BigPrice>>

RowsOf(n, offset) ==
    [i \in 1 .. n |->
        [timestamp |-> [local |-> i, offset |-> 0, well_formed |-> TRUE],
         symbol |-> "AAPL",
         price |-> [value |-> PriceCycle[((i + offset) % 4) + 1],
                    well_formed |-> TRUE]]]

\* a file longer than every size whose price text is broken in the row
\* after the first size
BrokenFile ==
    [RowsOf(sizes[3] + 1, 0) EXCEPT ![sizes[1] + 1].price.well_formed = FALSE]

\* from an empty file to a file longer than every size
FileLengths == 0 .. (sizes[3] + 1)

FileRows ==
    {RowsOf(n, offset) : n \in FileLengths, offset \in 0 .. 1} \cup {BrokenFile}

\* end - start of two reads of a monotonic clock: zero or positive
Elapsed == {0, 1}

\* main() calls benchmark_all(filepath, window_size)
BenchInit ==
    /\ window_size \in WindowSizes
    /\ StrategyIdle
    /\ file_exists \in BOOLEAN
    /\ file_rows \in (IF file_exists THEN FileRows ELSE {<<>>})
    /\ load_limit = 0
    /\ BenchIdle("load")

\* an exception leaves benchmark_all: nothing is returned
Raise(e) ==
    /\ bench_pc' = "raised"
    /\ raised' = e

\* data = load_market_data_limited(filepath, size)
BenchLoad ==
    /\ bench_pc = "load"
    /\ LET l == load_market_data_limited(file_exists, file_rows, sizes[size_idx])
       IN  IF l.error = "none"
           THEN /\ data' = l.data_points
                /\ bench_pc' = "naive_time"
                /\ UNCHANGED raised
           ELSE /\ Raise(l.error)
                /\ UNCHANGED data
    /\ UNCHANGED <<window_size, strategy_vars, file_vars, size_idx, results,
                   naive_time, naive_memory, windowed_time, windowed_memory,
                   instances, provenance, returned, speedups>>

\* what a measurement does to the harness: the instance it made is logged,
\* and either its value goes on to the next line or its exception leaves
Measured(m, next_pc) ==
    /\ instances' = instances \o m.made
    /\ IF m.error = "none"
       THEN bench_pc' = next_pc /\ UNCHANGED raised
       ELSE Raise(m.error)

Kept(m) ==
    IF m.error = "none"
    THEN [value |-> m.value, instance |-> Len(instances) + 1]
    ELSE NoMeasure

\* naive_time = measure_runtime(NaiveMovingAverageStrategy, data, window_size)
BenchNaiveTime ==
    /\ bench_pc = "naive_time"
    /\ \E e \in Elapsed :
          LET m == measure_runtime(NaiveClass, data, window_size, e)
          IN  Measured(m, "naive_memory") /\ naive_time' = Kept(m)
    /\ UNCHANGED <<window_size, strategy_vars, file_vars, size_idx, data,
                   results, naive_memory, windowed_time, windowed_memory,
                   provenance, returned, speedups>>

\* naive_memory = measure_memory(NaiveMovingAverageStrategy, data, window_size)
BenchNaiveMemory ==
    /\ bench_pc = "naive_memory"
    /\ LET m == measure_memory(NaiveClass, data, window_size)
       IN  Measured(m, "naive_append") /\ naive_memory' = Kept(m)
    /\ UNCHANGED <<window_size, strategy_vars, file_vars, size_idx, data,
                   results, naive_time, windowed_time, windowed_memory,
                   provenance, returned, speedups>>

\* results.append({'Strategy': 'NaiveMovingAverageStrategy', ...})
BenchNaiveAppend ==
    /\ bench_pc = "naive_append"
    /\ results' = AppendRecord(results, NaiveClass, sizes[size_idx],
                               naive_time.value, naive_memory.value)
    /\ provenance' = Append(provenance,
                            [time_instance |-> naive_time.instance,
                             memory_instance |-> naive_memory.instance,
                             loaded |-> Len(data)])
    /\ bench_pc' = "windowed_time"
    /\ UNCHANGED <<window_size, strategy_vars, file_vars, size_idx, data,
                   naive_time, naive_memory, windowed_time, windowed_memory,
                   instances, raised, returned, speedups>>

\* windowed_time = measure_runtime(WindowedMovingAverageStrategy, data, window_size)
BenchWindowedTime ==
    /\ bench_pc = "windowed_time"
    /\ \E e \in Elapsed :
          LET m == measure_runtime(WindowedClass, data, window_size, e)
          IN  Measured(m, "windowed_memory") /\ windowed_time' = Kept(m)
    /\ UNCHANGED <<window_size, strategy_vars, file_vars, size_idx, data,
                   results, naive_time, naive_memory, windowed_memory,
                   provenance, returned, speedups>>

\* windowed_memory = measure_memory(WindowedMovingAverageStrategy, data, window_size)
BenchWindowedMemory ==
    /\ bench_pc = "windowed_memory"
    /\ LET m == measure_memory(WindowedClass, data, window_size)
       IN  Measured(m, "windowed_append") /\ windowed_memory' = Kept(m)
    /\ UNCHANGED <<window_size, strategy_vars, file_vars, size_idx, data,
                   results, naive_time, naive_memory, windowed_time,
                   provenance, returned, speedups>>

\* results.append({'Strategy': 'WindowedMovingAverageStrategy', ...}), then
\* the for loop takes the next size or ends
BenchWindowedAppend ==
    /\ bench_pc = "windowed_append"
    /\ results' = AppendRecord(results, WindowedClass, sizes[size_idx],
                               windowed_time.value, windowed_memory.value)
    /\ provenance' = Append(provenance,
                            [time_instance |-> windowed_time.instance,
                             memory_instance |-> windowed_memory.instance,
                             loaded |-> Len(data)])
    /\ size_idx' = size_idx + 1
    /\ bench_pc' = IF LoopDone(size_idx + 1) THEN "return" ELSE "load"
    /\ UNCHANGED <<window_size, strategy_vars, file_vars, data,
                   naive_time, naive_memory, windowed_time, windowed_memory,
                   instances, raised, returned, speedups>>

\* return results
BenchReturn ==
    /\ bench_pc = "return"
    /\ returned' = results
    /\ bench_pc' = "returned"
    /\ UNCHANGED <<window_size, strategy_vars, file_vars, size_idx, data,
                   results, naive_time, naive_memory, windowed_time,
                   windowed_memory, instances, provenance, raised, speedups>>

\* main() hands the returned list to generate_report
GenerateReport ==
    /\ bench_pc = "returned"
    /\ speedups' = Speedups(returned)
    /\ bench_pc' = "reported"
    /\ UNCHANGED <<window_size, strategy_vars, file_vars, size_idx, data,
                   results, naive_time, naive_memory, windowed_time,
                   windowed_memory, instances, provenance, raised, returned>>

BenchNext ==
    \/ BenchLoad
    \/ BenchNaiveTime
    \/ BenchNaiveMemory
    \/ BenchNaiveAppend
    \/ BenchWindowedTime
    \/ BenchWindowedMemory
    \/ BenchWindowedAppend
    \/ BenchReturn
    \/ GenerateReport

BenchSpec == BenchInit /\ [][BenchNext]_vars

\* ------------------------------------- load_market_data_limited on its own
RowKinds ==
    {[timestamp |-> [local |-> 1, offset |-> 0, well_formed |-> TRUE],
      symbol |-> "AAPL", price |-> [value |-> One, well_formed |-> TRUE]],
     [timestamp |-> [local |-> 2, offset |-> 5, well_formed |-> TRUE],
      symbol |-> "MSFT", price |-> [value |-> Uneven, well_formed |-> TRUE]],
     \* a decimal text that is not a float: float() rounds it
     [timestamp |-> [local |-> 3, offset |-> 0, well_formed |-> TRUE],
      symbol |-> "AAPL",
      price |-> [value |-> BigPrice + 1, well_formed |-> TRUE]],
     [timestamp |-> [local |-> 4, offset |-> 0, well_formed |-> TRUE],
      symbol |-> "AAPL", price |-> [value |-> 0, well_formed |-> FALSE]],
     [timestamp |-> [local |-> 0, offset |-> 0, well_formed |-> FALSE],
      symbol |-> "AAPL", price |-> [value |-> One, well_formed |-> TRUE]]}

RowSeqs == UNION {[1 .. n -> RowKinds] : n \in 0 .. MaxRows}

\* a caller is about to call load_market_data_limited(filename, load_limit)
LoadInit ==
    /\ window_size = 1
    /\ StrategyIdle
    /\ file_exists \in BOOLEAN
    /\ file_rows \in (IF file_exists THEN RowSeqs ELSE {<<>>})
    /\ load_limit \in 0 .. MaxLimit
    /\ BenchIdle("call_load")

\* load_market_data_limited(filename, load_limit) returns or raises
LoadCall ==
    /\ bench_pc = "call_load"
    /\ LET l == load_market_data_limited(file_exists, file_rows, load_limit)
       IN  /\ data' = l.data_points
           /\ raised' = l.error
           /\ bench_pc' = IF l.error = "none" THEN "loaded" ELSE "raised"
    /\ UNCHANGED <<window_size, strategy_vars, file_vars, size_idx, results,
                   naive_time, naive_memory, windowed_time, windowed_memory,
                   instances, provenance, returned, speedups>>

LoadNext == LoadCall

LoadSpec == LoadInit /\ [][LoadNext]_vars

\* ------------------------------------------------- the repository as a whole
\* either the strategies are driven directly (the tests) or main() runs the
\* benchmark
AllInit == Init \/ BenchInit

AllNext ==
    \/ bench_pc = "idle" /\ Next
    \/ BenchNext

AllSpec == AllInit /\ [][AllNext]_vars

\* ------------------------------------------------------------------ claims
Errors == {"ZeroDivisionError", "IndexError"}

\* the signal the exact arithmetic mean of the last k prices up to tick i
\* gives: price > mean  <=>  k * price > sum, for k >= 1
MeanSignal(i, k) ==
    LET s == ExactSum(SubSeq(ticks, i - k + 1, i))
    IN  IF k * ticks[i] > s THEN "Long"
        ELSE IF k * ticks[i] < s THEN "Short"
        ELSE "Hold"

\* C1: for a window size >= 1, the naive and the windowed strategy fed the
\* same ticks return the same signal at every position both have reached.
C1_SameSignals ==
    window_size >= 1 =>
        \A i \in 1 .. Min(Len(naive_signals), Len(windowed_signals)) :
            naive_signals[i] = windowed_signals[i]

\* C2: for a window size >= 1, each of the first window_size - 1 calls of
\* either strategy returns Hold, whatever the prices.
C2_HoldBeforeWindowFills ==
    window_size >= 1 =>
        /\ \A i \in 1 .. Len(naive_signals) :
               i <= window_size - 1 => naive_signals[i] = "Hold"
        /\ \A i \in 1 .. Len(windowed_signals) :
               i <= window_size - 1 => windowed_signals[i] = "Hold"

C2_Witness ==
    /\ window_size = 3
    /\ Len(naive_signals) = 3 /\ Len(windowed_signals) = 3
    /\ ticks[1] # ticks[2]
    /\ naive_signals[3] # "Hold" /\ windowed_signals[3] # "Hold"

\* C3: after n calls with window size k the windowed strategy retains
\* exactly min(n, k) prices and the naive strategy exactly n.
C3_RetainedCounts ==
    /\ windowed.constructed =>
           Len(windowed.window) = Min(Len(windowed_signals), windowed.window_size)
    /\ naive.constructed =>
           Len(naive.price_history) = Len(naive_signals)

C3_Witness ==
    /\ window_size = 2
    /\ Len(windowed_signals) = 4 /\ Len(windowed.window) = 2
    /\ Len(naive_signals) = 4 /\ Len(naive.price_history) = 4

\* C4: in every reachable state of the windowed strategy running_sum is the
\* sum of the prices in window (as an exact sum, or as recomputed by an
\* independent float summation) and the window holds at most window_size prices.
C4_RunningSumIsWindowSum ==
    windowed.constructed =>
        /\ \/ windowed.running_sum = ExactSum(windowed.window)
           \/ windowed.running_sum = FloatSum(windowed.window)
        /\ Len(windowed.window) <= windowed.window_size

\* C5: once window_size >= 1 ticks have been processed, either strategy
\* returns Long, Short or Hold as the tick's price is above, below or equal
\* to the arithmetic mean of the last window_size prices.
C5_SignalFollowsMean ==
    window_size >= 1 =>
        /\ \A i \in 1 .. Len(naive_signals) :
               i >= window_size => naive_signals[i] = MeanSignal(i, window_size)
        /\ \A i \in 1 .. Len(windowed_signals) :
               i >= window_size => windowed_signals[i] = MeanSignal(i, window_size)

\* C6: no strategy instance with a window size <= 0 exists, and
\* generate_signals never runs with such a window size.
C6_NonPositiveWindowRejected ==
    /\ naive.constructed => naive.window_size >= 1
    /\ windowed.constructed => windowed.window_size >= 1
    /\ window_size <= 0 => naive_signals = <<>> /\ windowed_signals = <<>>

\* C7: with window size 0 or 1 no call of the windowed strategy reads the
\* oldest element of an empty window or divides by zero.
C7_NoEmptyEvictionNoZeroDivision ==
    window_size \in {0, 1} =>
        \A i \in 1 .. Len(windowed_signals) : windowed_signals[i] \notin Errors

\* C8: the records are in the order produced: record 2j-1 is the naive
\* and record 2j the windowed record of the j-th size, so ticks never
\* decreases along the list; the list returned is that list, and
\* generate_report pairs the i-th naive with the i-th windowed record of
\* the same size.
C8_RecordsInOrder ==
    /\ \A i \in 1 .. Len(results) :
           /\ results[i].ticks = sizes[(i + 1) \div 2]
           /\ results[i].Strategy =
                  (IF i % 2 = 1 THEN NaiveClass ELSE WindowedClass)
    /\ \A i \in 1 .. Len(results) - 1 : results[i].ticks <= results[i + 1].ticks
    /\ bench_pc \in {"returned", "reported"} => returned = results
    /\ bench_pc = "reported" =>
           /\ Len(speedups) = Len(sizes)
           /\ \A i \in 1 .. Len(speedups) :
                  /\ speedups[i].naive_ticks = sizes[i]
                  /\ speedups[i].windowed_ticks = sizes[i]

C8_Witness ==
    /\ bench_pc = "reported"
    /\ Len(returned) = 6
    /\ Len(speedups) = 3
    /\ speedups[3].speedup = <<1, 1>>

\* C9: benchmark_all returns only the full list, one record with the four
\* fields per strategy class and size, and returns nothing when it raises.
RecordFields == {"Strategy", "ticks", "runtime", "memory"}

C9_FullResultOrRaise ==
    /\ bench_pc \in {"returned", "reported"} =>
           /\ raised = "none"
           /\ Len(returned) = 2 * Len(sizes)
           /\ \A i \in 1 .. Len(returned) : DOMAIN returned[i] = RecordFields
           /\ \A j \in 1 .. Len(sizes) : \A c \in {NaiveClass, WindowedClass} :
                  Cardinality({i \in 1 .. Len(returned) :
                                  /\ returned[i].Strategy = c
                                  /\ returned[i].ticks = sizes[j]}) = 1
    /\ bench_pc \notin {"returned", "reported"} => returned = <<>>
    /\ bench_pc = "raised" <=> raised # "none"

C9_Witness ==
    /\ bench_pc = "returned"
    /\ Len(returned) = 6
    /\ Len(file_rows) = sizes[1]

LoadedFor(i) == Min(sizes[(i + 1) \div 2], Len(file_rows))

MeasuredInstances ==
    {provenance[i].time_instance : i \in 1 .. Len(provenance)}
        \cup {provenance[i].memory_instance : i \in 1 .. Len(provenance)}

Suffix(s, n) == SubSeq(s, Len(s) - n + 1, Len(s))

\* C11: for a window size k >= 1, after n calls the window holds the
\* min(n, k) most recent prices, oldest first: the suffix of that length of
\* the n prices fed, and of the price_history of a naive strategy that has
\* processed the same n ticks.
C11_WindowIsSuffixOfHistory ==
    (window_size >= 1 /\ windowed.constructed) =>
        LET n == Len(windowed_signals)
            kept == Min(n, window_size)
        IN  /\ windowed.window = Suffix(SubSeq(ticks, 1, n), kept)
            /\ (naive.constructed /\ Len(naive_signals) = n) =>
                   windowed.window = Suffix(naive.price_history, kept)

C11_Witness ==
    /\ window_size = 2
    /\ naive.constructed /\ windowed.constructed
    /\ Len(naive_signals) = 4 /\ Len(windowed_signals) = 4
    /\ ticks[3] # ticks[4] /\ ticks[2] # ticks[3]
    /\ windowed.window = <<ticks[3], ticks[4]>>

\* C12: every call of the windowed strategy updates running_sum by one
\* float subtraction and one float addition: when the window held
\* window_size prices before the call, the oldest is subtracted, it is the
\* price the insertion removes from the window, and the tick's price is
\* added; otherwise the tick's price is added and nothing leaves the window.
C12_SingleAddSubtractPair ==
    [][Len(windowed_signals') = Len(windowed_signals) + 1 =>
          LET price == ticks[Len(windowed_signals) + 1]
          IN  IF Len(windowed.window) = windowed.window_size
              THEN /\ windowed.window # <<>>
                   /\ windowed'.running_sum =
                          FAdd(FSub(windowed.running_sum, windowed.window[1]),
                               price)
                   /\ windowed'.window = Append(Tail(windowed.window), price)
              ELSE /\ windowed'.running_sum = FAdd(windowed.running_sum, price)
                   /\ windowed'.window = Append(windowed.window, price)]_vars

\* C13: price_history is append-only: a call of the naive strategy leaves
\* the stored prices as they are and appends the tick's price, so after n
\* calls price_history is the n prices processed, in arrival order.
C13_HistoryAppendOnly ==
    /\ naive.constructed =>
           naive.price_history = SubSeq(ticks, 1, Len(naive_signals))
    /\ ~naive.constructed => naive.price_history = <<>> /\ naive_signals = <<>>

C13_Witness ==
    /\ window_size = 2
    /\ Len(naive_signals) = 4
    /\ naive.price_history = ticks
    /\ ticks[1] # ticks[2] /\ ticks[3] # ticks[4]
    /\ naive_signals[4] # "Hold"

\* C14: window_size is fixed at construction: every instance, whether fed
\* directly or replayed by the benchmark harness, has the window size it
\* was constructed with in every reachable state, no step changes it, and
\* the capacity of a windowed strategy's deque equals it.
C14_WindowSizeFixed ==
    /\ naive.constructed => naive.window_size = window_size
    /\ windowed.constructed =>
           /\ windowed.window_size = window_size
           /\ windowed.maxlen = window_size
    /\ \A i \in 1 .. Len(instances) :
           /\ instances[i].window_size = window_size
           /\ instances[i].final.window_size = window_size
           /\ instances[i].class = WindowedClass =>
                  instances[i].final.maxlen = window_size

\* the harness has replayed a sequence longer than the window through
\* instances of both classes
C14_Witness ==
    /\ window_size = 2
    /\ bench_pc = "returned"
    /\ instances[10].class = NaiveClass
    /\ Len(instances[10].final.price_history) = sizes[3]
    /\ instances[12].class = WindowedClass
    /\ instances[12].replayed = sizes[3]
    /\ Len(instances[12].final.window) = 2

\* the rows a call with load_limit has to convert
Wanted == Min(load_limit, Len(file_rows))

\* C15: load_market_data_limited(filename, limit) returns the first
\* min(limit, number of data rows) rows, each converted to its
\* MarketDataPoint, in the order of the file: never more than limit, and
\* none for limit = 0.  It raises exactly when the file is missing or one of
\* those rows cannot be converted.
C15_FirstRowsInOrder ==
    /\ bench_pc = "loaded" =>
           /\ Len(data) = Wanted
           /\ Len(data) <= load_limit
           /\ load_limit = 0 => data = <<>>
           /\ \A i \in 1 .. Wanted :
                  /\ data[i].timestamp = file_rows[i].timestamp.local
                  /\ data[i].symbol = file_rows[i].symbol
                  /\ data[i].price = FDiv(file_rows[i].price.value, 1)
    /\ bench_pc = "raised" =>
           \/ ~file_exists
           \/ \E i \in 1 .. Wanted :
                  \/ ~file_rows[i].timestamp.well_formed
                  \/ ~file_rows[i].price.well_formed

\* a limit below the number of rows, with a broken row after the limit
C15_Witness ==
    /\ bench_pc = "loaded"
    /\ load_limit = 2
    /\ Len(file_rows) = 3
    /\ ~file_rows[3].price.well_formed
    /\ Len(data) = 2
    /\ data[1].timestamp = 2 /\ data[2].timestamp = 1

\* C16: the ticks field of every record is the number of ticks replayed
\* through the instances measured for it, also when the file holds fewer
\* rows than the size asked for.
C16_TicksIsReplayedCount ==
    \A i \in 1 .. Len(results) :
        /\ results[i].ticks = instances[provenance[i].time_instance].replayed
        /\ results[i].ticks = instances[provenance[i].memory_instance].replayed

\* C17: with window size 1 every call of either strategy returns Hold,
\* whatever the prices, and after each call of the windowed strategy
\* running_sum is the price of the tick of that call.
C17_WindowOneAlwaysHold ==
    window_size = 1 =>
        /\ \A i \in 1 .. Len(naive_signals) : naive_signals[i] = "Hold"
        /\ \A i \in 1 .. Len(windowed_signals) : windowed_signals[i] = "Hold"
        /\ Len(windowed_signals) >= 1 =>
               /\ windowed.running_sum = ticks[Len(windowed_signals)]
               /\ windowed.window = <<ticks[Len(windowed_signals)]>>

C17_Witness ==
    /\ window_size = 1
    /\ Len(naive_signals) = 4 /\ Len(windowed_signals) = 4
    /\ ticks = <<One, BigPrice, Uneven, One>>

====
